---- MODULE Spec2Model ----
(***************************************************************************)
(* A model of the CloudData ransomware monitor.                            *)
(*                                                                         *)
(*   src/src/monitor.py         RansomwareDetector, FileMonitor, main      *)
(*   src/src/file_monitor.py    FileEventHandler, setup_monitoring         *)
(*   src/src/data_processor.py  parse_log_line, process_file_chunks        *)
(*   src/src/analyzer.py        RansomwareAnalyzer.analyze_threats         *)
(*                                                                         *)
(* Strings whose characters matter (file paths, extensions) are sequences  *)
(* of one-character strings, so that os.path.splitext and str.lower are    *)
(* computed character by character.  Timestamps are whole seconds.         *)
(***************************************************************************)
EXTENDS Integers, Sequences, FiniteSets, TLC

VARIABLES
    activity_log,   \* RansomwareDetector.activity_log['events'] (in memory)
    using_ml,       \* RansomwareDetector.using_ml
    disk,           \* contents of activity_log.json
    alerts,         \* contents of the alert store (alerts.json)
    observer,       \* the watchdog observer thread: running / dead / stopped
    clock,          \* last value returned by time.time()
    ev,             \* what the last handler call computed, logged and returned
    accepted,       \* history: every event a handler appended, over all restarts
    saveFailures,   \* history: number of failed saves so far
    restarts,       \* history: number of restarts so far
    h_events,       \* FileEventHandler.events, shared by the writers
    h_file,         \* contents of FileEventHandler.log_file, cell by cell
    w_pc,           \* per writer: position inside on_any_event / _save_events
    w_buf,          \* per writer: the text json.dump put in its file buffer
    w_left,         \* per writer: events it still has to deliver
    p_line,         \* parse_log_line: the line (characters)
    p_type,         \* parse_log_line: log_type, the name of the file
    p_pc,           \* input / parsed / scored / reparsed
    p_result,       \* what parse_log_line returned and logged
    p_again,        \* the event written back as a line, and that line parsed
    f_lines,        \* process_file_chunks: the lines of the file
    f_block,        \* the line whose read decodes the block with the bad byte
    f_enc,          \* index of the encoding of the current pass
    f_pos,          \* lines read in the current pass
    f_chunk,        \* the chunk being filled
    f_out,          \* the chunks yielded so far
    f_pc,           \* reading / done
    b_log,          \* analyze_threats: the rows of the DataFrame
    b_report,       \* analyze_threats: the list it returned
    b_pc,           \* loaded / analyzed
    s_file,         \* FileEventHandler from construction: the log file
    s_events,       \* self.events
    s_pc,           \* new / running / raised
    s_last,         \* what the last call did
    s_failed,       \* the events whose save failed
    d_exists,       \* dashboard: the log files under data/NATscenario
    d_processed,    \* st.session_state.data_processed
    d_calls,        \* calls of process_log_file per log file
    d_run,          \* what the last run of the script did
    q_pending,      \* watching ".": observed events not yet dispatched
    q_written,      \* files the handler wrote, not yet observed
    q_count,        \* external changes, dispatched and recorded events
    t_input,        \* process_all: the log files of the run
    t_todo,         \* chunks not yet saved
    t_temp,         \* the files of temp_processed_data
    t_clock,        \* datetime.now().timestamp()
    t_results,      \* what merge_temp_files returned
    t_pc            \* chunking / returned

detVars == <<activity_log, using_ml, disk, alerts, observer, clock, ev,
             accepted, saveFailures, restarts>>
concVars == <<h_events, h_file, w_pc, w_buf, w_left>>
parseVars == <<p_line, p_type, p_pc, p_result, p_again>>
fileVars == <<f_lines, f_block, f_enc, f_pos, f_chunk, f_out, f_pc>>
batchVars == <<b_log, b_report, b_pc>>
startVars == <<s_file, s_events, s_pc, s_last, s_failed>>
dashVars == <<d_exists, d_processed, d_calls, d_run>>
watchVars == <<q_pending, q_written, q_count>>
mergeVars == <<t_input, t_todo, t_temp, t_clock, t_results, t_pc>>
vars == <<activity_log, using_ml, disk, alerts, observer, clock, ev,
          accepted, saveFailures, restarts,
          h_events, h_file, w_pc, w_buf, w_left,
          p_line, p_type, p_pc, p_result, p_again,
          f_lines, f_block, f_enc, f_pos, f_chunk, f_out, f_pc,
          b_log, b_report, b_pc,
          s_file, s_events, s_pc, s_last, s_failed,
          d_exists, d_processed, d_calls, d_run,
          q_pending, q_written, q_count,
          t_input, t_todo, t_temp, t_clock, t_results, t_pc>>

----------------------------------------------------------------------------
(* Bounds of the model *)

\* events one detector handles in the general specification
MaxEvents == 2
\* events one detector handles in the volume specification
MaxVolumeEvents == 12
\* failed saves in one run
MaxSaveFailures == 1
\* restarts of the monitor in one run
MaxRestarts == 1
\* concurrent writers, and events each of them delivers
MaxWriters == 2
MaxPerWriter == 2

\* values time.time() takes (seconds); the clock does not step back
Times == {0, 60, 70}

----------------------------------------------------------------------------
(* Program constants *)

alert_threshold == 10
lookback == 60

Max(S) == CHOOSE x \in S : \A y \in S : y <= x

\* str.lower() on one character
LowerChar(c) ==
    CASE c = "L" -> "l" [] c = "O" -> "o" [] c = "C" -> "c"
      [] c = "K" -> "k" [] c = "E" -> "e" [] c = "D" -> "d"
      [] OTHER -> c

lower(s) == [i \in 1..Len(s) |-> LowerChar(s[i])]

\* str.rfind(c), 1-based; 0 when c does not occur (Python's -1)
rfind(p, c) ==
    LET S == {i \in 1..Len(p) : p[i] = c}
    IN  IF S = {} THEN 0 ELSE Max(S)

\* os.path.splitext(p)[1] on a POSIX path: the text from the last dot of the
\* last component, unless only dots precede it in that component
splitext(p) ==
    LET sepIndex == rfind(p, "/")
        dotIndex == rfind(p, ".")
    IN  IF /\ dotIndex > sepIndex
           /\ \E i \in (sepIndex + 1)..(dotIndex - 1) : p[i] # "."
        THEN SubSeq(p, dotIndex, Len(p))
        ELSE <<>>

suspicious_extensions ==
    { <<".", "e", "n", "c", "r", "y", "p", "t", "e", "d">>,
      <<".", "c", "r", "y", "p", "t", "o">>,
      <<".", "l", "o", "c", "k", "e", "d">>,
      <<".", "d", "e", "c", "r", "y", "p", "t">> }

\* paths of the observed files
P_txt == <<"a", ".", "t", "x", "t">>
P_locked == <<"a", ".", "l", "o", "c", "k", "e", "d">>
P_LOCKED == <<"d", "/", "a", ".", "L", "O", "C", "K", "E", "D">>
P_dotfile == <<"d", "/", ".", "l", "o", "c", "k", "e", "d">>
P_dir == <<"d", ".", "l", "o", "c", "k", "e", "d", "/", "a">>

Paths == {P_txt, P_LOCKED, P_dotfile, P_dir}
VolumePaths == {P_txt, P_locked}

R_ext == "Suspicious extension detected"
R_high == "High modification rate"
R_ml == "ML model detected suspicious pattern"

\* what RansomwareML.predict may do: return a truthy or falsy value, or raise
PredictOutcomes == {"true", "false", "raise"}
\* what open(..., 'w') + json.dump may do
SaveOutcomes == {"ok", "open_error", "write_error"}

\* methods the class RansomwareDetector defines
RansomwareDetectorMethods ==
    {"__init__", "save_activity_log", "check_suspicious_activity"}

NoEval ==
    [done |-> FALSE, event_time |-> 0, file_path |-> <<>>, recent |-> 0,
     is_suspicious_ext |-> FALSE, high_activity |-> FALSE,
     ml_called |-> FALSE, ml_raised |-> FALSE, ml_suspicious |-> FALSE,
     reasons |-> <<>>, outcome |-> "none", errors |-> {}]

----------------------------------------------------------------------------
(* RansomwareDetector *)

NewEvent(t, type, path) ==
    [timestamp |-> t, event_type |-> type, path |-> path]

\* a window that also takes the event exactly 60 s old
recent_events_inclusive(log, event_time) ==
    SelectSeq(log, LAMBDA e : e.timestamp >= event_time - lookback)

\* the comprehension of lines 184-185: events newer than event_time - 60
recent_events(log, event_time) ==
    SelectSeq(log, LAMBDA e : e.timestamp > event_time - lookback)

\* lines 188-189
is_suspicious_ext(file_path) ==
    lower(splitext(file_path)) \in suspicious_extensions

\* a threshold that is reached, not exceeded
high_activity_at_threshold(recent) ==
    Len(recent) >= alert_threshold

\* line 190
high_activity(recent) ==
    Len(recent) > alert_threshold

\* a predict call outside any try block
ml_detection_uncaught(using, recent, outcome) ==
    IF using /\ recent # <<>>
    THEN [called |-> TRUE, raised |-> outcome = "raise",
          escaped |-> outcome = "raise", value |-> outcome = "true"]
    ELSE [called |-> FALSE, raised |-> FALSE, escaped |-> FALSE,
          value |-> FALSE]

\* lines 193-199: the classifier is consulted only when it was loaded and the
\* window is not empty; an exception of predict is caught and logged.
\* escaped: the exception leaves the try block, which `except Exception` rules out
ml_detection(using, recent, outcome) ==
    IF using /\ recent # <<>>
    THEN [called |-> TRUE, raised |-> outcome = "raise", escaped |-> FALSE,
          value |-> outcome = "true"]
    ELSE [called |-> FALSE, raised |-> FALSE, escaped |-> FALSE,
          value |-> FALSE]

\* the volume reason appended before the extension reason
build_reasons_volume_first(ext, high, ml) ==
    (IF high THEN <<R_high>> ELSE <<>>) \o
    (IF ext THEN <<R_ext>> ELSE <<>>) \o
    (IF ml THEN <<R_ml>> ELSE <<>>)

\* lines 207-213
build_reasons(ext, high, ml) ==
    (IF ext THEN <<R_ext>> ELSE <<>>) \o
    (IF high THEN <<R_high>> ELSE <<>>) \o
    (IF ml THEN <<R_ml>> ELSE <<>>)

\* save_activity_log: open(..., 'w') truncates the file, json.dump writes the
\* whole in-memory log; an exception is caught and logged
save_activity_log(log, d, outcome) ==
    CASE outcome = "ok" -> [kind |-> "json", events |-> log]
      [] outcome = "open_error" -> d
      [] OTHER -> [kind |-> "truncated", events |-> <<>>]

\* self.save_alert(event_time, file_path, reasons): the attribute lookup on
\* the instance; the class defines no such method
save_alert(store, event_time, file_path, reasons) ==
    IF "save_alert" \in RansomwareDetectorMethods
    THEN [raised |-> FALSE,
          store |-> Append(store, [timestamp |-> event_time,
                                   file_path |-> file_path,
                                   reasons |-> reasons])]
    ELSE [raised |-> TRUE, store |-> store]

\* check_suspicious_activity(event_time, event_type, file_path) on the log
\* `log`; p is what predict does, s what the save of line 202 does
check_suspicious_activity(log, using, d, store, event_time, file_path, p, s) ==
    LET recent == recent_events(log, event_time)
        ext == is_suspicious_ext(file_path)
        high == high_activity(recent)
        ml == ml_detection(using, recent, p)
        base == [done |-> TRUE, event_time |-> event_time,
                 file_path |-> file_path, recent |-> Len(recent),
                 is_suspicious_ext |-> ext, high_activity |-> high,
                 ml_called |-> ml.called, ml_raised |-> ml.raised,
                 ml_suspicious |-> ml.value, reasons |-> <<>>,
                 outcome |-> "none",
                 errors |-> IF ml.raised /\ ~ml.escaped
                            THEN {"ML prediction error"} ELSE {}]
    IN  IF ml.escaped
        THEN [ev |-> [base EXCEPT !.outcome = "PredictError"],
              disk |-> d, alerts |-> store, saved |-> FALSE]
        ELSE
        LET d2 == save_activity_log(log, d, s)
            errs == base.errors \cup
                    (IF s = "ok" THEN {} ELSE {"Error saving activity log"})
        IN  IF ext \/ high \/ ml.value
            THEN LET reasons == build_reasons(ext, high, ml.value)
                     sa == save_alert(store, event_time, file_path, reasons)
                 IN  [ev |-> [base EXCEPT !.reasons = reasons,
                                          !.errors = errs,
                                          !.outcome = IF sa.raised
                                                      THEN "AttributeError"
                                                      ELSE "True"],
                      disk |-> d2, alerts |-> sa.store, saved |-> TRUE]
            ELSE [ev |-> [base EXCEPT !.errors = errs, !.outcome = "False"],
                  disk |-> d2, alerts |-> store, saved |-> TRUE]

\* an append that first drops the events older than the lookback
append_event_evicting(log, e) ==
    Append(SelectSeq(log, LAMBDA x : x.timestamp > e.timestamp - lookback), e)

\* the list.append of lines 227-231 / 238-242
append_event(log, e) ==
    Append(log, e)

Failures(s) == IF s = "ok" THEN 0 ELSE 1

\* FileMonitor.on_modified / on_created for a file event: append, save,
\* evaluate.  An exception that leaves the handler ends the observer thread
\* that dispatched it.
handle(type, path, t, s1, s2, p) ==
    LET e == NewEvent(t, type, path)
        log1 == append_event(activity_log, e)
        d1 == save_activity_log(log1, disk, s1)
        r == check_suspicious_activity(log1, using_ml, d1, alerts, t, path,
                                       p, s2)
        fails == Failures(s1) + (IF r.saved THEN Failures(s2) ELSE 0)
    IN  /\ observer = "running"
        /\ t >= clock
        /\ saveFailures + fails <= MaxSaveFailures
        /\ activity_log' = log1
        /\ clock' = t
        /\ disk' = r.disk
        /\ alerts' = r.alerts
        /\ ev' = [r.ev EXCEPT !.errors = @ \cup
                     (IF s1 = "ok" THEN {} ELSE {"Error saving activity log"})]
        /\ observer' = IF r.ev.outcome \in {"True", "False"}
                       THEN "running" ELSE "dead"
        /\ accepted' = Append(accepted, e)
        /\ saveFailures' = saveFailures + fails
        /\ UNCHANGED <<using_ml, restarts>>

on_modified(path, t, s1, s2, p) ==
    handle("modified", path, t, s1, s2, p)

on_created(path, t, s1, s2, p) ==
    handle("created", path, t, s1, s2, p)

\* `if not event.is_directory`: a directory event is ignored
on_directory_event ==
    /\ observer = "running"
    /\ UNCHANGED detVars

\* KeyboardInterrupt in main: observer.stop(), then observer.join()
stop ==
    /\ observer \in {"running", "dead"}
    /\ observer' = "stopped"
    /\ UNCHANGED <<activity_log, using_ml, disk, alerts, clock, ev, accepted,
                   saveFailures, restarts>>

\* main() once more after it returned: a new RansomwareDetector (empty log,
\* the model loaded or not), a new observer; the files stay as they are
restart ==
    /\ observer = "stopped"
    /\ restarts < MaxRestarts
    /\ restarts' = restarts + 1
    /\ activity_log' = <<>>
    /\ using_ml' \in BOOLEAN
    /\ observer' = "running"
    /\ ev' = NoEval
    /\ UNCHANGED <<disk, alerts, clock, accepted, saveFailures>>

\* a file is created before anything else happens to it
Unseen(path) ==
    \A i \in 1..Len(activity_log) : activity_log[i].path # path

DetInit ==
    /\ activity_log = <<>>
    /\ using_ml \in BOOLEAN
    /\ disk = [kind |-> "absent", events |-> <<>>]
    /\ alerts = <<>>
    /\ observer = "running"
    /\ clock = 0
    /\ ev = NoEval
    /\ accepted = <<>>
    /\ saveFailures = 0
    /\ restarts = 0

ConcIdle ==
    /\ h_events = <<>>
    /\ h_file = <<>>
    /\ w_pc = [w \in 1..MaxWriters |-> "idle"]
    /\ w_buf = [w \in 1..MaxWriters |-> <<>>]
    /\ w_left = [w \in 1..MaxWriters |-> 0]

----------------------------------------------------------------------------
(* The monitor, one event at a time: every kind of path, failing saves,    *)
(* stop and restart                                                        *)

\* The parser, the file reader and the batch analyzer before they are given
\* anything to work on.
ParseIdle ==
    /\ p_line = <<>>
    /\ p_type = <<>>
    /\ p_pc = "idle"
    /\ p_result = <<>>
    /\ p_again = <<>>

FileIdle ==
    /\ f_lines = <<>>
    /\ f_block = 0
    /\ f_enc = 0
    /\ f_pos = 0
    /\ f_chunk = <<>>
    /\ f_out = <<>>
    /\ f_pc = "idle"

BatchIdle ==
    /\ b_log = <<>>
    /\ b_report = <<>>
    /\ b_pc = "idle"

\* no FileEventHandler has been constructed
HandlerIdle ==
    /\ s_file = <<>>
    /\ s_events = <<>>
    /\ s_pc = "idle"
    /\ s_last = <<>>
    /\ s_failed = {}

\* no dashboard session has been opened
DashIdle ==
    /\ d_exists = {}
    /\ d_processed = FALSE
    /\ d_calls = <<>>
    /\ d_run = <<>>

\* file_monitor.py is not running as a script
WatchIdle ==
    /\ q_pending = <<>>
    /\ q_written = <<>>
    /\ q_count = <<>>

\* no RansomwareLogProcessor has been constructed
MergeIdle ==
    /\ t_input = <<>>
    /\ t_todo = <<>>
    /\ t_temp = {}
    /\ t_clock = 0
    /\ t_results = <<>>
    /\ t_pc = "idle"

Init ==
    DetInit /\ ConcIdle /\ ParseIdle /\ FileIdle /\ BatchIdle /\ HandlerIdle /\ DashIdle /\ WatchIdle /\ MergeIdle

Modified ==
    /\ Len(accepted) < MaxEvents
    /\ \E path \in Paths, t \in Times, s1, s2 \in SaveOutcomes,
          p \in PredictOutcomes :
            on_modified(path, t, s1, s2, p)
    /\ UNCHANGED <<concVars, parseVars, fileVars, batchVars, startVars, dashVars, watchVars, mergeVars>>

Created ==
    /\ Len(accepted) < MaxEvents
    /\ \E path \in Paths, t \in Times, s1, s2 \in SaveOutcomes,
          p \in PredictOutcomes :
            Unseen(path) /\ on_created(path, t, s1, s2, p)
    /\ UNCHANGED <<concVars, parseVars, fileVars, batchVars, startVars, dashVars, watchVars, mergeVars>>

DirectoryEvent ==
    on_directory_event /\ UNCHANGED <<concVars, parseVars, fileVars, batchVars, startVars, dashVars, watchVars, mergeVars>>

Stop ==
    stop /\ UNCHANGED <<concVars, parseVars, fileVars, batchVars, startVars, dashVars, watchVars, mergeVars>>

Restart ==
    restart /\ UNCHANGED <<concVars, parseVars, fileVars, batchVars, startVars, dashVars, watchVars, mergeVars>>

Next ==
    \/ Modified
    \/ Created
    \/ DirectoryEvent
    \/ Stop
    \/ Restart

Spec == Init /\ [][Next]_vars

----------------------------------------------------------------------------
(* The monitor under a burst of events: long logs, saves that succeed      *)

VolumeModified ==
    /\ Len(activity_log) < MaxVolumeEvents
    /\ \E path \in VolumePaths, t \in Times, p \in PredictOutcomes :
            on_modified(path, t, "ok", "ok", p)
    /\ UNCHANGED <<concVars, parseVars, fileVars, batchVars, startVars, dashVars, watchVars, mergeVars>>

VolumeCreated ==
    /\ Len(activity_log) < MaxVolumeEvents
    /\ \E path \in VolumePaths, t \in Times, p \in PredictOutcomes :
            Unseen(path) /\ on_created(path, t, "ok", "ok", p)
    /\ UNCHANGED <<concVars, parseVars, fileVars, batchVars, startVars, dashVars, watchVars, mergeVars>>

NextVolume ==
    \/ VolumeModified
    \/ VolumeCreated

SpecVolume == Init /\ [][NextVolume]_vars

----------------------------------------------------------------------------
(* FileEventHandler.on_any_event called by several writers at once.  The   *)
(* handler takes no lock: between any two of its steps another writer may  *)
(* run.                                                                    *)

Writers == 1..MaxWriters

\* json.dump({'events': events}, f): the text of the file, one cell for the
\* opening, one for each event, one for the closing
Opening == [cell |-> "{", w |-> 0, k |-> 0]
Closing == [cell |-> "}", w |-> 0, k |-> 0]
EventCell(w, k) == [cell |-> "event", w |-> w, k |-> k]

json_dump(events) ==
    <<Opening>> \o events \o <<Closing>>

\* a write of `text` at offset 0 of a file that was not truncated since
write_at_start(file, text) ==
    text \o SubSeq(file, Len(text) + 1, Len(file))

\* json.load accepts the text: an opening, events, one closing
well_formed(file) ==
    /\ Len(file) >= 2
    /\ file[1] = Opening
    /\ file[Len(file)] = Closing
    /\ \A i \in 2..(Len(file) - 1) : file[i].cell = "event"

\* data.get('events', []) of a well-formed file
loaded_events(file) ==
    IF well_formed(file) THEN SubSeq(file, 2, Len(file) - 1) ELSE <<>>

\* self.events.append(event_data), line 235
w_append(w) ==
    /\ w_pc[w] = "idle"
    /\ w_left[w] > 0
    /\ h_events' = Append(h_events, EventCell(w, w_left[w]))
    /\ w_pc' = [w_pc EXCEPT ![w] = "open"]
    /\ UNCHANGED <<h_file, w_buf, w_left>>

\* open(self.log_file, 'w'), line 215: the file is truncated
w_open(w) ==
    /\ w_pc[w] = "open"
    /\ h_file' = <<>>
    /\ w_pc' = [w_pc EXCEPT ![w] = "dump"]
    /\ UNCHANGED <<h_events, w_buf, w_left>>

\* json.dump, line 216: the text of the list as it is now goes to the buffer
w_dump(w) ==
    /\ w_pc[w] = "dump"
    /\ w_buf' = [w_buf EXCEPT ![w] = json_dump(h_events)]
    /\ w_pc' = [w_pc EXCEPT ![w] = "close"]
    /\ UNCHANGED <<h_events, h_file, w_left>>

\* leaving the with block: the buffer is written at the handle's offset, 0
w_close(w) ==
    /\ w_pc[w] = "close"
    /\ h_file' = write_at_start(h_file, w_buf[w])
    /\ w_buf' = [w_buf EXCEPT ![w] = <<>>]
    /\ w_pc' = [w_pc EXCEPT ![w] = "idle"]
    /\ w_left' = [w_left EXCEPT ![w] = @ - 1]
    /\ UNCHANGED h_events

\* FileEventHandler(log_file) on a directory without a log file:
\* _ensure_log_file writes the empty list
InitConc ==
    /\ DetInit
    /\ h_events = <<>>
    /\ h_file = json_dump(<<>>)
    /\ w_pc = [w \in Writers |-> "idle"]
    /\ w_buf = [w \in Writers |-> <<>>]
    /\ w_left = [w \in Writers |-> MaxPerWriter]
    /\ ParseIdle /\ FileIdle /\ BatchIdle /\ HandlerIdle /\ DashIdle /\ WatchIdle /\ MergeIdle

WAppend == \E w \in Writers : w_append(w) /\ UNCHANGED <<detVars, parseVars, fileVars, batchVars, startVars, dashVars, watchVars, mergeVars>>
WOpen == \E w \in Writers : w_open(w) /\ UNCHANGED <<detVars, parseVars, fileVars, batchVars, startVars, dashVars, watchVars, mergeVars>>
WDump == \E w \in Writers : w_dump(w) /\ UNCHANGED <<detVars, parseVars, fileVars, batchVars, startVars, dashVars, watchVars, mergeVars>>
WClose == \E w \in Writers : w_close(w) /\ UNCHANGED <<detVars, parseVars, fileVars, batchVars, startVars, dashVars, watchVars, mergeVars>>

NextConc ==
    \/ WAppend
    \/ WOpen
    \/ WDump
    \/ WClose

SpecConc == InitConc /\ [][NextConc]_vars

----------------------------------------------------------------------------
(* Strings of src/src/data_processor.py, character by character *)
None == <<>>
Some(x) == <<x>>

Whitespace == {" ", "\t", "\n"}
Digits == {"0", "1", "2", "3", "4", "5", "6", "7", "8", "9"}

\* the digit of a value below ten
DigitChar(n) == <<"0", "1", "2", "3", "4", "5", "6", "7", "8", "9">>[n + 1]

RECURSIVE lstrip(_)
lstrip(s) ==
    IF s # <<>> /\ Head(s) \in Whitespace THEN lstrip(Tail(s)) ELSE s

RECURSIVE rstrip(_)
rstrip(s) ==
    IF s # <<>> /\ s[Len(s)] \in Whitespace
    THEN rstrip(SubSeq(s, 1, Len(s) - 1))
    ELSE s

\* str.strip()
strip(s) == rstrip(lstrip(s))

\* str.startswith(prefix)
startswith(s, prefix) ==
    Len(s) >= Len(prefix) /\ SubSeq(s, 1, Len(prefix)) = prefix

\* sub in s
contains(s, sub) ==
    \E i \in 1..(Len(s) - Len(sub) + 1) : SubSeq(s, i, i + Len(sub) - 1) = sub

RECURSIVE split_words(_, _)
split_words(s, word) ==
    IF s = <<>>
    THEN IF word = <<>> THEN <<>> ELSE <<word>>
    ELSE IF Head(s) \in Whitespace
         THEN IF word = <<>>
              THEN split_words(Tail(s), <<>>)
              ELSE <<word>> \o split_words(Tail(s), <<>>)
         ELSE split_words(Tail(s), Append(word, Head(s)))

\* str.split(): the words between runs of whitespace, none of them empty
split(s) == split_words(s, <<>>)

RECURSIVE split_parts(_, _, _)
split_parts(s, sep, part) ==
    IF s = <<>>
    THEN <<part>>
    ELSE IF Head(s) = sep
         THEN <<part>> \o split_parts(Tail(s), sep, <<>>)
         ELSE split_parts(Tail(s), sep, Append(part, Head(s)))

\* a split at the wrong character
split_at_dot(s, sep) == split_parts(s, ".", <<>>)

\* str.split(sep) for a one-character sep: empty parts are kept
split_at(s, sep) == split_parts(s, sep, <<>>)

\* sep.join(words)
RECURSIVE join(_, _)
join(sep, words) ==
    IF words = <<>> THEN <<>>
    ELSE IF Len(words) = 1 THEN words[1]
    ELSE words[1] \o sep \o join(sep, Tail(words))

IsDigits(s) == s # <<>> /\ \A i \in 1..Len(s) : s[i] \in Digits

RECURSIVE DigitsToNat(_)
DigitsToNat(s) ==
    IF s = <<>> THEN 0
    ELSE 10 * DigitsToNat(SubSeq(s, 1, Len(s) - 1))
            + (CHOOSE n \in 0..9 : DigitChar(n) = s[Len(s)])

RECURSIVE NatToDigits(_)
NatToDigits(n) ==
    IF n < 10 THEN <<DigitChar(n)>>
    ELSE Append(NatToDigits(n \div 10), DigitChar(n % 10))

RECURSIVE StripLeadingZeros(_)
StripLeadingZeros(s) ==
    IF s # <<>> /\ Head(s) = "0" THEN StripLeadingZeros(Tail(s)) ELSE s

RECURSIVE StripTrailingZeros(_)
StripTrailingZeros(s) ==
    IF s # <<>> /\ s[Len(s)] = "0"
    THEN StripTrailingZeros(SubSeq(s, 1, Len(s) - 1))
    ELSE s

Unsigned(s) == IF s # <<>> /\ Head(s) \in {"+", "-"} THEN Tail(s) ELSE s
IsNegative(s) == s # <<>> /\ Head(s) = "-"

\* int(s) of a word: None stands for ValueError.  The value is an integer.
int(s) ==
    IF IsDigits(Unsigned(s))
    THEN Some(IF IsNegative(s) THEN 0 - DigitsToNat(Unsigned(s))
                               ELSE DigitsToNat(Unsigned(s)))
    ELSE None

\* The decimal number with digits `all`, the point after the first `point` of
\* them: its integer digits without leading zeros and its fraction digits
\* without trailing zeros, so that equal numbers are equal values.
Decimal(neg, all, point) ==
    LET Zeros(n) == [i \in 1..n |-> "0"]
        int_digits == IF point <= 0 THEN <<>>
                      ELSE IF point >= Len(all)
                           THEN all \o Zeros(point - Len(all))
                           ELSE SubSeq(all, 1, point)
        frac_digits == IF point <= 0 THEN Zeros(0 - point) \o all
                       ELSE IF point >= Len(all) THEN <<>>
                            ELSE SubSeq(all, point + 1, Len(all))
    IN  [kind |-> "finite", neg |-> neg,
         int |-> StripLeadingZeros(int_digits),
         frac |-> StripTrailingZeros(frac_digits)]

\* float(s) of a word: None stands for ValueError.  A mantissa of digits with
\* at most one point and at least one digit, an optional exponent, an
\* optional sign; or one of the words inf, infinity, nan in any case.
float(s) ==
    LET u == Unsigned(s)
        IsWord(w) == /\ Len(u) = Len(w)
                     /\ \A i \in 1..Len(u) : u[i] \in w[i]
        W_inf == <<{"i", "I"}, {"n", "N"}, {"f", "F"}>>
        W_inity == <<{"i", "I"}, {"n", "N"}, {"i", "I"}, {"t", "T"}, {"y", "Y"}>>
        W_nan == <<{"n", "N"}, {"a", "A"}, {"n", "N"}>>
        E == {i \in 1..Len(u) : u[i] \in {"e", "E"}}
        e == IF E = {} THEN Len(u) + 1 ELSE CHOOSE i \in E : \A j \in E : i <= j
        mantissa == SubSeq(u, 1, e - 1)
        exponent == SubSeq(u, e + 1, Len(u))
        parts == split_at(mantissa, ".")
        int_part == parts[1]
        frac_part == IF Len(parts) > 1 THEN parts[2] ELSE <<>>
        mantissa_ok == /\ Len(parts) <= 2
                       /\ int_part \o frac_part # <<>>
                       /\ \A i \in 1..Len(int_part) : int_part[i] \in Digits
                       /\ \A i \in 1..Len(frac_part) : frac_part[i] \in Digits
        exponent_ok == E = {} \/ IsDigits(Unsigned(exponent))
        shift == IF E = {} THEN 0
                 ELSE IF IsNegative(exponent)
                      THEN 0 - DigitsToNat(Unsigned(exponent))
                      ELSE DigitsToNat(Unsigned(exponent))
    IN  IF IsWord(W_inf) \/ IsWord(W_inf \o W_inity)
        THEN Some([kind |-> "inf", neg |-> IsNegative(s),
                   int |-> <<>>, frac |-> <<>>])
        ELSE IF IsWord(W_nan)
        THEN Some([kind |-> "nan", neg |-> FALSE, int |-> <<>>, frac |-> <<>>])
        ELSE IF mantissa_ok /\ exponent_ok
        THEN Some(Decimal(IsNegative(s), int_part \o frac_part,
                          Len(int_part) + shift))
        ELSE None

----------------------------------------------------------------------------
(* DataProcessor.parse_log_line *)
DNSinfo == <<"D", "N", "S", "i", "n", "f", "o", ".", "t", "x", "t">>
TCPconnInfo == <<"T", "C", "P", "c", "o", "n", "n", "I", "n", "f", "o", ".", "t", "x", "t">>
IOops == <<"I", "O", "o", "p", "s", ".", "t", "x", "t">>
S_Timestamp == <<"T", "i", "m", "e", "s", "t", "a", "m", "p">>
S_IP_src == <<"I", "P", "_", "s", "r", "c">>

\* what a call of parse_log_line returns, and the lines it wrote to the
\* error log
Returned(value) == [value |-> value, logged |-> 0]

\* a parser that reads the line it cannot read as 0.0
timestamp_error_defaulted ==
    Returned(Some([timestamp |-> [kind |-> "finite", neg |-> FALSE,
                                  int |-> <<>>, frac |-> <<>>]]))

\* except ValueError of float(fields[0]): the line is dropped silently
timestamp_error == Returned(None)

\* fields[i] of Python is fields[i + 1] here
parse_dns(timestamp, fields) ==
    IF Len(fields) < 3
    THEN Returned(None)
    ELSE Returned(Some(
             [timestamp |-> timestamp,
              src_ip |-> split_at(fields[2], ":")[1],
              dst_ip |-> split_at(fields[3], ":")[1],
              dns_query |-> IF Len(fields) > 4 THEN Some(fields[5]) ELSE None,
              response |-> IF Len(fields) > 5 THEN Some(fields[6]) ELSE None]))

\* int(parts[1]) if len(parts) > 1 else None; the flag is the ValueError
port_of(parts) ==
    IF Len(parts) > 1
    THEN [raised |-> int(parts[2]) = None, port |-> int(parts[2])]
    ELSE [raised |-> FALSE, port |-> None]

parse_tcp(timestamp, fields) ==
    IF Len(fields) < 3
    THEN Returned(None)
    ELSE LET src_parts == split_at(fields[2], ":")
             dst_parts == split_at(fields[3], ":")
             src_port == port_of(src_parts)
             dst_port == port_of(dst_parts)
         IN  IF src_port.raised \/ dst_port.raised
             THEN Returned(None)
             ELSE Returned(Some(
                      [timestamp |-> timestamp,
                       src_ip |-> src_parts[1],
                       dst_ip |-> dst_parts[1],
                       src_port |-> src_port.port,
                       dst_port |-> dst_port.port,
                       smb_command |-> IF Len(fields) > 3
                                       THEN Some(fields[4]) ELSE None]))

\* a path that stops at its first space
file_path_of_unjoined(fields) == fields[3]

\* a path whose words keep the whitespace of the line between them
file_path_of_tabbed(fields) == join(<<" ", "\t">>, SubSeq(fields, 3, Len(fields)))

\* ' '.join(fields[2:])
file_path_of(fields) == join(<<" ">>, SubSeq(fields, 3, Len(fields)))

parse_io(timestamp, fields) ==
    IF Len(fields) < 2
    THEN Returned(None)
    ELSE Returned(Some(
             [timestamp |-> timestamp,
              operation |-> IF Len(fields) > 1 THEN Some(fields[2]) ELSE None,
              file_path |-> IF Len(fields) > 2
                            THEN Some(file_path_of(fields)) ELSE None]))

is_skipped_line(line) ==
    \/ strip(line) = <<>>
    \/ startswith(line, S_Timestamp)
    \/ contains(line, S_IP_src)

parse_log_line(line, log_type) ==
    LET fields == split(strip(line))
    IN  IF is_skipped_line(line) THEN Returned(None)
        ELSE IF fields = <<>> THEN Returned(None)
        ELSE LET timestamp == float(fields[1])
             IN  IF timestamp = None THEN timestamp_error
                 ELSE IF log_type = DNSinfo THEN parse_dns(timestamp[1], fields)
                 ELSE IF log_type = TCPconnInfo THEN parse_tcp(timestamp[1], fields)
                 ELSE IF log_type = IOops THEN parse_io(timestamp[1], fields)
                 ELSE Returned(None)

----------------------------------------------------------------------------
(* parse_log_line applied to one line of one log file.  The lines are built *)
(* from words: a first word that is or is not a number, ip:port words with  *)
(* and without a port, operation and path words, in one to six columns.     *)
T_1700000000 == <<"1", "7", "0", "0", "0", "0", "0", "0", "0", "0", ".", "0">>
T_1700000001 == <<"1", "7", "0", "0", "0", "0", "0", "0", "0", "1", ".", "0">>
T_1e3 == <<"1", "e", "3">>
T_abc == <<"a", "b", "c">>
A_src == <<"1", "0", ".", "0", ".", "0", ".", "5", ":", "4", "4", "4", "4">>
A_no_port == <<"1", "0", ".", "0", ".", "0", ".", "5">>
A_named_port == <<"1", "0", ".", "0", ".", "0", ".", "5", ":", "h", "t", "t", "p">>
A_no_ip == <<":", "5", "3">>
A_dst == <<"1", "0", ".", "0", ".", "0", ".", "9", ":", "4", "4", "5">>
A_empty_port == <<"1", "0", ".", "0", ".", "0", ".", "9", ":">>
W_MODIFY == <<"M", "O", "D", "I", "F", "Y">>
W_WRITE == <<"W", "R", "I", "T", "E">>
W_path == <<"/", "h", "o", "m", "e", "/", "u", "s", "e", "r", "/", "r", "e", "p", "o", "r", "t", ".", "d", "o", "c", "x", ".", "l", "o", "c", "k", "e", "d">>
W_my == <<"m", "y">>
W_file == <<"f", "i", "l", "e", ".", "t", "x", "t">>
W_query == <<"q", ".", "c", "o", "m">>
W_response == <<"1", ".", "2", ".", "3", ".", "4">>
Other_txt == <<"o", "t", "h", "e", "r", ".", "t", "x", "t">>

WordLists ==
    LET FirstWords == {T_1700000000, T_1700000001, T_1e3, T_abc, S_Timestamp}
        SecondWords == {A_src, A_no_port, A_named_port, A_no_ip, W_MODIFY}
        ThirdWords == {A_dst, A_empty_port, W_path, W_my}
        FourthWords == {W_WRITE, W_file, S_IP_src}
    IN  {<<>>}
        \cup {<<a>> : a \in FirstWords}
        \cup {<<a, b>> : a \in FirstWords, b \in SecondWords}
        \cup {<<a, b, c>> : a \in FirstWords, b \in SecondWords, c \in ThirdWords}
        \cup {<<a, b, c, d>> \o tail :
                a \in FirstWords, b \in SecondWords, c \in ThirdWords,
                d \in FourthWords,
                tail \in {<<>>, <<W_query>>, <<W_query, W_response>>}}

\* one or two whitespace characters between two words, none or one before
\* the first
Lines ==
    {indent \o join(sep, words) \o <<"\n">> :
        indent \in {<<>>, <<" ">>},
        sep \in {<<" ">>, <<" ", "\t">>},
        words \in WordLists}

LogTypes == {DNSinfo, TCPconnInfo, IOops, Other_txt}

\* the event of the last parse, when there is one
Parsed == p_pc # "idle" /\ p_pc # "input"
HasEvent == Parsed /\ p_result.value # None
Event == p_result.value[1]

\* Whole seconds of a timestamp, as the detector counts them
whole_seconds(timestamp) == DigitsToNat(timestamp.int)

\* repr(float) of a finite timestamp
repr_float(t) ==
    (IF t.neg THEN <<"-">> ELSE <<>>)
        \o (IF t.int = <<>> THEN <<"0">> ELSE t.int)
        \o <<".">>
        \o (IF t.frac = <<>> THEN <<"0">> ELSE t.frac)

\* str(int) of a port
str_int(n) == IF n < 0 THEN <<"-">> \o NatToDigits(0 - n) ELSE NatToDigits(n)

\* The event written back as a line of its log file, field by field in the
\* columns parse_log_line reads them from.
serialize(e, log_type) ==
    LET ts == repr_float(e.timestamp)
        address(ip, port) ==
            IF port = None THEN ip ELSE ip \o <<":">> \o str_int(port[1])
        words ==
            IF log_type = TCPconnInfo
            THEN <<ts, address(e.src_ip, e.src_port),
                   address(e.dst_ip, e.dst_port)>> \o e.smb_command
            ELSE IF log_type = IOops
            THEN <<ts>> \o e.operation \o e.file_path
            ELSE <<ts, e.src_ip, e.dst_ip>>
                    \o (IF e.dns_query = None THEN <<>>
                        ELSE <<<<"-">>>> \o e.dns_query \o e.response)
    IN  join(<<" ">>, words) \o <<"\n">>

InitParse ==
    /\ DetInit /\ using_ml = FALSE
    /\ ConcIdle /\ FileIdle /\ BatchIdle /\ HandlerIdle /\ DashIdle /\ WatchIdle /\ MergeIdle
    /\ p_line \in Lines
    /\ p_type \in LogTypes
    /\ p_pc = "input"
    /\ p_result = <<>>
    /\ p_again = <<>>

Parse ==
    /\ p_pc = "input"
    /\ p_result' = parse_log_line(p_line, p_type)
    /\ p_pc' = "parsed"
    /\ UNCHANGED <<p_line, p_type, p_again>>
    /\ UNCHANGED <<detVars, concVars, fileVars, batchVars, startVars, dashVars, watchVars, mergeVars>>

\* The parsed filesystem event handed to the detector, whose window is empty
\* and which has no classifier.
Score ==
    /\ p_pc = "parsed"
    /\ p_type = IOops
    /\ p_result.value # None
    /\ p_result.value[1].file_path # None
    /\ LET e == p_result.value[1]
           r == check_suspicious_activity(activity_log, using_ml, disk, alerts,
                                          whole_seconds(e.timestamp),
                                          e.file_path[1], "false", "ok")
       IN  /\ ev' = r.ev
           /\ disk' = r.disk
           /\ alerts' = r.alerts
    /\ p_pc' = "scored"
    /\ UNCHANGED <<activity_log, using_ml, observer, clock, accepted,
                   saveFailures, restarts>>
    /\ UNCHANGED <<p_line, p_type, p_result, p_again>>
    /\ UNCHANGED <<concVars, fileVars, batchVars, startVars, dashVars, watchVars, mergeVars>>

\* The parsed event written back as a line, and that line parsed.
Reparse ==
    /\ p_pc = "parsed"
    /\ p_result.value # None
    /\ p_result.value[1].timestamp.kind = "finite"
    /\ LET line == serialize(p_result.value[1], p_type)
       IN  p_again' = [line |-> line,
                       result |-> parse_log_line(line, p_type)]
    /\ p_pc' = "reparsed"
    /\ UNCHANGED <<p_line, p_type, p_result>>
    /\ UNCHANGED <<detVars, concVars, fileVars, batchVars, startVars, dashVars, watchVars, mergeVars>>

NextParse == Parse \/ Score \/ Reparse

SpecParse == InitParse /\ [][NextParse]_vars

----------------------------------------------------------------------------
(* DataProcessor.process_file_chunks read by process_directory: one log    *)
(* file, read line by line, each chunk saved as soon as it is yielded.  A   *)
(* file is a sequence of lines of bytes; the byte 0xE9 followed by an ASCII *)
(* byte is no UTF-8, and is e-acute in latin1 and cp1252.  The file stays   *)
(* readable: open and read raise nothing but UnicodeDecodeError.            *)
ChunkSize == 2
MaxFileLines == 4

encodings == <<"utf-8", "latin1", "cp1252">>

HighByte == "0xE9"
EAcute == "U+00E9"

\* bytes.decode(encoding) of one line: None stands for UnicodeDecodeError
decode(bytes, encoding) ==
    IF encoding = "utf-8"
    THEN IF \E i \in 1..Len(bytes) : bytes[i] = HighByte
         THEN None
         ELSE Some(bytes)
    ELSE Some([i \in 1..Len(bytes) |->
                  IF bytes[i] = HighByte THEN EAcute ELSE bytes[i]])

\* the lines a file is made of: two well-formed lines, a line whose first word
\* is no number, a header line, and a well-formed line with a high byte
F_a == <<"1", ".", "0", " ", "M", "O", "D", "I", "F", "Y", " ", "a">> \o <<"\n">>
F_b == <<"2", ".", "0", " ", "M", "O", "D", "I", "F", "Y", " ", "b">> \o <<"\n">>
F_malformed == <<"x", " ", "M", "O", "D", "I", "F", "Y", " ", "c">> \o <<"\n">>
F_header == <<"T", "i", "m", "e", "s", "t", "a", "m", "p", " ", "O", "p">> \o <<"\n">>
F_high == <<"3", ".", "0", " ", "M", "O", "D", "I", "F", "Y", " ", "c", "a", "f">> \o <<HighByte, "\n">>

FileLines == {F_a, F_b, F_malformed, F_header, F_high}

RECURSIVE SeqsUpTo(_, _)
SeqsUpTo(S, n) ==
    IF n = 0 THEN {<<>>}
    ELSE LET shorter == SeqsUpTo(S, n - 1)
         IN  shorter \cup {Append(q, x) : q \in shorter, x \in S}

Files == SeqsUpTo(FileLines, MaxFileLines)

\* The reader decodes the file block by block: the line whose read makes it
\* decode the block holding the first undecodable byte is that byte's line
\* or any line before it (0: there is no such byte).
Blocks(lines) ==
    LET H == {i \in 1..Len(lines) : decode(lines[i], encodings[1]) = None}
    IN  IF H = {} THEN {0}
        ELSE 1..(CHOOSE i \in H : \A j \in H : i <= j)

\* a loop that ends at the first line without an event
next_line_aborting(pos, n, parsed) == IF parsed = None THEN n ELSE pos + 1

\* for line in f: the line after this one
next_line(pos, n, parsed) == pos + 1

\* if len(chunk) >= self.chunk_size
flush(chunk) == Len(chunk) >= ChunkSize

InitFile ==
    /\ DetInit /\ using_ml = FALSE
    /\ ConcIdle /\ ParseIdle /\ BatchIdle /\ HandlerIdle /\ DashIdle /\ WatchIdle /\ MergeIdle
    /\ f_lines \in Files
    /\ f_block \in Blocks(f_lines)
    /\ f_enc = 1
    /\ f_pos = 0
    /\ f_chunk = <<>>
    /\ f_out = <<>>
    /\ f_pc = "reading"

\* the read of the next line raises UnicodeDecodeError
DecodeFails ==
    /\ f_pos < Len(f_lines)
    /\ \/ encodings[f_enc] = "utf-8" /\ f_block = f_pos + 1
       \/ decode(f_lines[f_pos + 1], encodings[f_enc]) = None

\* one turn of the loop over the lines: parse, append, yield a full chunk
ReadLine ==
    /\ f_pc = "reading"
    /\ f_pos < Len(f_lines)
    /\ ~DecodeFails
    /\ LET line == decode(f_lines[f_pos + 1], encodings[f_enc])[1]
           parsed_line == parse_log_line(line, IOops).value
           chunk == f_chunk \o parsed_line
       IN  /\ f_pos' = next_line(f_pos, Len(f_lines), parsed_line)
           /\ IF parsed_line # None /\ flush(chunk)
              THEN f_out' = Append(f_out, chunk) /\ f_chunk' = <<>>
              ELSE f_out' = f_out /\ f_chunk' = chunk
    /\ UNCHANGED <<f_lines, f_block, f_enc, f_pc>>
    /\ UNCHANGED <<detVars, concVars, parseVars, batchVars, startVars, dashVars, watchVars, mergeVars>>

\* except UnicodeDecodeError: continue with the next encoding, from the
\* start of the file and with an empty chunk
DecodeError ==
    /\ f_pc = "reading"
    /\ DecodeFails
    /\ IF f_enc < Len(encodings)
       THEN /\ f_enc' = f_enc + 1
            /\ f_pos' = 0
            /\ f_chunk' = <<>>
            /\ f_pc' = f_pc
       ELSE /\ f_pc' = "done"
            /\ UNCHANGED <<f_enc, f_pos, f_chunk>>
    /\ UNCHANGED <<f_lines, f_block, f_out>>
    /\ UNCHANGED <<detVars, concVars, parseVars, batchVars, startVars, dashVars, watchVars, mergeVars>>

\* the end of the file: yield what is left in the chunk, and break
EndOfFile ==
    /\ f_pc = "reading"
    /\ f_pos >= Len(f_lines)
    /\ f_out' = IF f_chunk # <<>> THEN Append(f_out, f_chunk) ELSE f_out
    /\ f_chunk' = IF f_chunk # <<>> THEN <<>> ELSE f_chunk
    /\ f_pc' = "done"
    /\ UNCHANGED <<f_lines, f_block, f_enc, f_pos>>
    /\ UNCHANGED <<detVars, concVars, parseVars, batchVars, startVars, dashVars, watchVars, mergeVars>>

NextFile == ReadLine \/ DecodeError \/ EndOfFile

SpecFile == InitFile /\ [][NextFile]_vars

----------------------------------------------------------------------------
(* RansomwareAnalyzer.analyze_threats of src/src/analyzer.py on the rows of *)
(* an activity log.  Timestamps are whole seconds.                          *)
rapid_score == 2
extension_score == 3
volume_score == 1
high_volume == 10
threat_threshold == 2

I_rapid == "Rapid file operations detected"
I_extension == "Suspicious file extension detected"
I_volume == "High volume of file operations"

batch_suspicious_extensions ==
    { <<".", "e", "n", "c", "r", "y", "p", "t">>, <<".", "l", "o", "c", "k", "e", "d">>, <<".", "c", "r", "y", "p", "t", "e", "d">>, <<".", "c", "r", "y">>, <<".", "c", "r", "y", "p", "t", "o">> }

\* the paths of the log, in the order sorted() puts them
B_txt == <<"a", ".", "t", "x", "t">>
B_locked_bak == <<"b", ".", "l", "o", "c", "k", "e", "d", ".", "b", "a", "k">>
B_LOCKED == <<"c", ".", "L", "O", "C", "K", "E", "D">>
SortedPaths == <<B_txt, B_locked_bak, B_LOCKED>>

\* the rows of one path, in log order
RECURSIVE group_of(_, _)
group_of(log, path) ==
    IF log = <<>> THEN <<>>
    ELSE (IF Head(log).path = path THEN <<Head(log)>> ELSE <<>>)
            \o group_of(Tail(log), path)

\* df.groupby('path'): the paths that have rows, in sorted order
RECURSIVE groupby_keys(_, _)
groupby_keys(log, paths) ==
    IF paths = <<>> THEN <<>>
    ELSE (IF group_of(log, Head(paths)) # <<>> THEN <<Head(paths)>> ELSE <<>>)
            \o groupby_keys(log, Tail(paths))

\* (group['timestamp'].diff() < pd.Timedelta(seconds=1)).any()
rapid_operations(group) ==
    \E i \in 2..Len(group) : group[i].timestamp - group[i - 1].timestamp < 1

\* any(ext in str(path).lower() for ext in suspicious_extensions)
has_suspicious_extension(path) ==
    \E ext \in batch_suspicious_extensions : contains(lower(path), ext)

high_volume_of_operations(group) == Len(group) > high_volume

\* a report of every group that has any indicator
is_threat_from_one(threat_score) == threat_score >= 1

\* if threat_score >= 2
is_threat(threat_score) == threat_score >= threat_threshold

Min(S) == CHOOSE x \in S : \A y \in S : x <= y

\* the entry of one group, or nothing
threat_of(path, group) ==
    LET rapid == rapid_operations(group)
        ext == has_suspicious_extension(path)
        volume == high_volume_of_operations(group)
        threat_score == (IF rapid THEN rapid_score ELSE 0)
                        + (IF ext THEN extension_score ELSE 0)
                        + (IF volume THEN volume_score ELSE 0)
        threat_indicators == (IF rapid THEN <<I_rapid>> ELSE <<>>)
                             \o (IF ext THEN <<I_extension>> ELSE <<>>)
                             \o (IF volume THEN <<I_volume>> ELSE <<>>)
        times == {group[i].timestamp : i \in 1..Len(group)}
    IN  IF is_threat(threat_score)
        THEN <<[path |-> path,
                threat_score |-> threat_score,
                indicators |-> threat_indicators,
                first_seen |-> Min(times),
                last_seen |-> Max(times),
                event_count |-> Len(group)]>>
        ELSE <<>>

RECURSIVE threats_of(_, _)
threats_of(log, keys) ==
    IF keys = <<>> THEN <<>>
    ELSE threat_of(Head(keys), group_of(log, Head(keys)))
            \o threats_of(log, Tail(keys))

\* a sort that puts an entry before the entries of equal score
RECURSIVE insert_by_score_ties_first(_, _)
insert_by_score_ties_first(sorted, t) ==
    IF sorted = <<>> THEN <<t>>
    ELSE IF Head(sorted).threat_score > t.threat_score
         THEN <<Head(sorted)>> \o insert_by_score_ties_first(Tail(sorted), t)
         ELSE <<t>> \o sorted

\* sorted(threats, key=threat_score, reverse=True): entries of equal score
\* keep their order
RECURSIVE insert_by_score(_, _)
insert_by_score(sorted, t) ==
    IF sorted = <<>> THEN <<t>>
    ELSE IF Head(sorted).threat_score >= t.threat_score
         THEN <<Head(sorted)>> \o insert_by_score(Tail(sorted), t)
         ELSE <<t>> \o sorted

RECURSIVE sorted_by_score(_)
sorted_by_score(threats) ==
    IF threats = <<>> THEN <<>>
    ELSE insert_by_score(sorted_by_score(SubSeq(threats, 1, Len(threats) - 1)),
                         threats[Len(threats)])

analyze_threats(log) ==
    IF log = <<>> THEN <<>>
    ELSE sorted_by_score(threats_of(log, groupby_keys(log, SortedPaths)))

\* The logs: for each path no row, one, two, ten or eleven rows, with
\* timestamps that stay, rise by a second or fall by a second; the rows of
\* the paths one path after the other, in either order, or taking turns.
Runs(path) ==
    {[k \in 1..count |-> [timestamp |-> 100 + (k - 1) * step, path |-> path]] :
        count \in {0, 1, 2, high_volume, high_volume + 1},
        step \in {-1, 0, 1}}

RECURSIVE TakingTurns(_)
TakingTurns(runs) ==
    LET left == SelectSeq(runs, LAMBDA r : r # <<>>)
    IN  IF left = <<>> THEN <<>>
        ELSE [i \in 1..Len(left) |-> Head(left[i])]
                \o TakingTurns([i \in 1..Len(left) |-> Tail(left[i])])

BatchLogs ==
    {CASE order = "turns" -> TakingTurns(<<a, b, c>>)
       [] order = "reversed" -> c \o b \o a
       [] OTHER -> a \o b \o c :
        a \in Runs(B_txt), b \in Runs(B_locked_bak), c \in Runs(B_LOCKED),
        order \in {"grouped", "reversed", "turns"}}

InitBatch ==
    /\ DetInit /\ using_ml = FALSE
    /\ ConcIdle /\ ParseIdle /\ FileIdle /\ HandlerIdle /\ DashIdle /\ WatchIdle /\ MergeIdle
    /\ b_log \in BatchLogs
    /\ b_report = <<>>
    /\ b_pc = "loaded"

Analyze ==
    /\ b_pc = "loaded"
    /\ b_report' = analyze_threats(b_log)
    /\ b_pc' = "analyzed"
    /\ UNCHANGED b_log
    /\ UNCHANGED <<detVars, concVars, parseVars, fileVars, startVars, dashVars, watchVars, mergeVars>>

NextBatch == Analyze

SpecBatch == InitBatch /\ [][NextBatch]_vars

----------------------------------------------------------------------------
(* FileEventHandler of src/src/file_monitor.py from its construction on,    *)
(* one event at a time: the log file it finds, and saves that fail.         *)
MaxHandled == 3

\* what open(log_file, 'r') + json.load may find: no file, an empty file,
\* text that is no JSON, a file that cannot be read, JSON that is no object,
\* and the events a former run saved
Storage ==
    {[kind |-> k, events |-> <<>>] :
        k \in {"missing", "empty", "corrupt", "unreadable", "list"}}
    \cup {[kind |-> "events", events |-> <<0>>]}

\* _save_events: open(log_file, 'w') and json.dump, re-raised when they fail
save_events(events, file, outcome) ==
    [raised |-> outcome # "ok",
     attempts |-> 1,
     file |-> CASE outcome = "ok" -> [kind |-> "events", events |-> events]
                [] outcome = "open_error" -> file
                [] OTHER -> [kind |-> "empty", events |-> <<>>]]

\* _ensure_log_file, called by __init__
ensure_log_file(file, outcome) ==
    LET saved == save_events(<<>>, file, outcome)
    IN  CASE file.kind = "missing" ->
                [raised |-> saved.raised, events |-> <<>>, file |-> saved.file]
          [] file.kind = "events" ->
                [raised |-> FALSE, events |-> file.events, file |-> file]
          [] file.kind \in {"empty", "corrupt"} ->
                [raised |-> saved.raised, events |-> <<>>, file |-> saved.file]
          [] OTHER ->
                [raised |-> TRUE, events |-> <<>>, file |-> file]

\* a handler that lets the error of a save out
event_failure_reraised(raised) ==
    [returned |-> ~raised, error_logged |-> raised]

\* except Exception of on_any_event: the error is logged, nothing is raised
event_failure(raised) ==
    [returned |-> TRUE, error_logged |-> raised]

InitHandler ==
    /\ DetInit /\ using_ml = FALSE
    /\ ConcIdle /\ ParseIdle /\ FileIdle /\ BatchIdle /\ DashIdle /\ WatchIdle /\ MergeIdle
    /\ s_file \in Storage
    /\ s_events = <<>>
    /\ s_pc = "new"
    /\ s_last = [op |-> "none", found |-> "none", id |-> 0, save |-> "none",
                 attempts |-> 0, returned |-> TRUE, error_logged |-> FALSE]
    /\ s_failed = {}

\* FileEventHandler(log_file)
Construct ==
    /\ s_pc = "new"
    /\ \E outcome \in SaveOutcomes :
        LET r == ensure_log_file(s_file, outcome)
        IN  /\ s_file' = r.file
            /\ s_events' = r.events
            /\ s_pc' = IF r.raised THEN "raised" ELSE "running"
            /\ s_last' = [s_last EXCEPT !.op = "init", !.found = s_file.kind,
                                        !.returned = ~r.raised,
                                        !.error_logged = r.raised]
    /\ UNCHANGED s_failed
    /\ UNCHANGED <<detVars, concVars, parseVars, fileVars, batchVars, dashVars, watchVars, mergeVars>>

\* on_any_event for the next event
HandleEvent ==
    /\ s_pc = "running"
    /\ s_last.id < MaxHandled
    /\ \E is_directory \in BOOLEAN, outcome \in SaveOutcomes :
        IF is_directory
        THEN UNCHANGED <<s_file, s_events, s_last, s_failed>>
        ELSE LET id == s_last.id + 1
                 events == Append(s_events, id)
                 saved == save_events(events, s_file, outcome)
                 done == event_failure(saved.raised)
             IN  /\ s_events' = events
                 /\ s_file' = saved.file
                 /\ s_failed' = IF saved.raised THEN s_failed \cup {id}
                                ELSE s_failed
                 /\ s_last' = [op |-> "event", found |-> s_last.found,
                               id |-> id, save |-> outcome,
                               attempts |-> saved.attempts,
                               returned |-> done.returned,
                               error_logged |-> done.error_logged]
    /\ s_pc' = IF s_last'.returned THEN "running" ELSE "raised"
    /\ UNCHANGED <<detVars, concVars, parseVars, fileVars, batchVars, dashVars, watchVars, mergeVars>>

NextHandler == Construct \/ HandleEvent

SpecHandler == InitHandler /\ [][NextHandler]_vars

----------------------------------------------------------------------------
(* RansomwareMonitor of src/src/main.py: the script runs of one session,    *)
(* each run with or without a click on 'Process Data'.                      *)
MaxRuns == 3

\* for log_type in ["TCPconnInfo.txt", "IOops.txt", "DNSinfo.txt"]
DashLogTypes == <<"TCPconnInfo.txt", "IOops.txt", "DNSinfo.txt">>
LogFiles == {"Cerber", "Locky"} \X {DashLogTypes[i] : i \in DOMAIN DashLogTypes}

\* process_data: the family directories in the order iterdir yields them, of
\* each the log types that exist; every file is passed to process_log_file
\* until a call raises, and data_processed is set when none did.
\* fail_at = 0: no call raises.
process_data(data_processed, exists, calls, order, fail_at) ==
    LET of_family(f) ==
            SelectSeq([i \in 1..Len(DashLogTypes) |-> <<f, DashLogTypes[i]>>],
                      LAMBDA file : file \in exists)
        walk[i \in 0..Len(order)] ==
            IF i = 0 THEN <<>> ELSE walk[i - 1] \o of_family(order[i])
        files == walk[Len(order)]
        raised == fail_at \in 1..Len(files)
        passed == IF raised THEN SubSeq(files, 1, fail_at) ELSE files
    IN  IF data_processed
        THEN [data_processed |-> TRUE, calls |-> calls, passed |-> 0]
        ELSE [data_processed |-> ~raised,
              calls |-> [f \in LogFiles |->
                            calls[f] + Cardinality({i \in 1..Len(passed) :
                                                        passed[i] = f})],
              passed |-> Len(passed)]

InitDash ==
    /\ DetInit /\ using_ml = FALSE
    /\ ConcIdle /\ ParseIdle /\ FileIdle /\ BatchIdle /\ HandlerIdle /\ WatchIdle /\ MergeIdle
    /\ d_exists \in SUBSET LogFiles
    /\ d_processed = FALSE
    /\ d_calls = [f \in LogFiles |-> 0]
    /\ d_run = [n |-> 0, clicked |-> FALSE, processed_before |-> FALSE,
                passed |-> 0]

\* one run of the script: run() up to the 'Process Data' button
Run ==
    /\ d_run.n < MaxRuns
    /\ \E clicked \in BOOLEAN,
          order \in {<<"Cerber", "Locky">>, <<"Locky", "Cerber">>},
          fail_at \in 0..Cardinality(LogFiles) :
        LET r == IF ~d_processed /\ clicked
                 THEN process_data(d_processed, d_exists, d_calls, order,
                                   fail_at)
                 ELSE [data_processed |-> d_processed, calls |-> d_calls,
                       passed |-> 0]
        IN  /\ d_processed' = r.data_processed
            /\ d_calls' = r.calls
            /\ d_run' = [n |-> d_run.n + 1, clicked |-> clicked,
                         processed_before |-> d_processed,
                         passed |-> r.passed]
    /\ UNCHANGED d_exists
    /\ UNCHANGED <<detVars, concVars, parseVars, fileVars, batchVars,
                   startVars, watchVars, mergeVars>>

NextDash == Run

SpecDash == InitDash /\ [][NextDash]_vars

----------------------------------------------------------------------------
(* file_monitor.py run as a script: setup_monitoring(".") watches the       *)
(* current directory recursively, and the handler writes its two files,     *)
(* activity_log.json and file_monitor.log, into that directory.             *)
MaxExternal == 2
MaxDispatched == 3

log_file == "activity_log.json"
monitor_log == "file_monitor.log"

\* the files on_any_event writes: open(log_file, 'w') modifies the log file
\* unless the open fails; logger.info, or logger.error twice, appends to
\* file_monitor.log
written_by_handler(outcome) ==
    IF outcome = "open_error" THEN <<monitor_log>>
    ELSE <<log_file, monitor_log>>

InitWatch ==
    /\ DetInit /\ using_ml = FALSE
    /\ ConcIdle /\ ParseIdle /\ FileIdle /\ BatchIdle /\ HandlerIdle
    /\ DashIdle /\ MergeIdle
    /\ q_pending = <<>>
    /\ q_written = <<>>
    /\ q_count = [external |-> 0, dispatched |-> 0, recorded |-> 0]

\* something outside the monitor changes a file or a directory under "."
ExternalChange ==
    /\ q_count.external < MaxExternal
    /\ \E path \in {"a.txt", "sub"} :
        q_pending' = Append(q_pending,
                            [path |-> path, is_directory |-> path = "sub"])
    /\ q_count' = [q_count EXCEPT !.external = @ + 1]
    /\ UNCHANGED q_written
    /\ UNCHANGED <<detVars, concVars, parseVars, fileVars, batchVars,
                   startVars, dashVars, mergeVars>>

\* the observer notices a file written under the watched directory
Observe ==
    /\ q_written # <<>>
    /\ q_pending' = Append(q_pending,
                           [path |-> Head(q_written), is_directory |-> FALSE])
    /\ q_written' = Tail(q_written)
    /\ UNCHANGED q_count
    /\ UNCHANGED <<detVars, concVars, parseVars, fileVars, batchVars,
                   startVars, dashVars, mergeVars>>

\* the observer dispatches the oldest event to on_any_event
Dispatch ==
    /\ q_pending # <<>>
    /\ q_count.dispatched < MaxDispatched
    /\ q_pending' = Tail(q_pending)
    /\ \E outcome \in SaveOutcomes :
        IF Head(q_pending).is_directory
        THEN /\ q_written' = q_written
             /\ q_count' = [q_count EXCEPT !.dispatched = @ + 1]
        ELSE /\ q_written' = q_written \o written_by_handler(outcome)
             /\ q_count' = [q_count EXCEPT !.dispatched = @ + 1,
                                           !.recorded = @ + 1]
    /\ UNCHANGED <<detVars, concVars, parseVars, fileVars, batchVars,
                   startVars, dashVars, mergeVars>>

NextWatch == ExternalChange \/ Observe \/ Dispatch

SpecWatch == InitWatch /\ [][NextWatch]_vars

----------------------------------------------------------------------------
(* RansomwareLogProcessor.process_all of src/src/data_processor.py: the     *)
(* chunks of every log file saved to temp_processed_data, then merged.      *)

\* log files in the order process_all meets them, records numbered: a file
\* of three records, one of one record in the same family, one of the other
\* scenario
LogInputs ==
    <<[scenario |-> "nat_scenario", family |-> "Cerber",
       log_type |-> "DNSinfo.txt", records |-> <<1, 2, 3>>],
      [scenario |-> "nat_scenario", family |-> "Cerber",
       log_type |-> "IOops.txt", records |-> <<4>>],
      [scenario |-> "original_scenario", family |-> "Locky",
       log_type |-> "DNSinfo.txt", records |-> <<5>>]>>

\* what temp_dir.mkdir(exist_ok=True) may find: nothing, or the chunk file an
\* interrupted run left behind
Leftovers ==
    {{}, {[name |-> <<"nat_scenario", "Cerber", "IOops.txt", 0>>,
           scenario |-> "nat_scenario", family |-> "Cerber", data |-> <<9>>]}}

MergeKeys == {"nat_scenario", "original_scenario"} \X {"Cerber", "Locky"}
MergeRecords == {1, 2, 3, 4, 5, 9}

\* the chunks process_file_chunks yields for a file that decodes: chunk_size
\* records each, then the rest
chunks_of(file) ==
    LET n == Len(file.records)
    IN  [i \in 1..((n + ChunkSize - 1) \div ChunkSize) |->
            [scenario |-> file.scenario, family |-> file.family,
             log_type |-> file.log_type,
             data |-> SubSeq(file.records, (i - 1) * ChunkSize + 1,
                             Min({i * ChunkSize, n}))]]

\* save_chunk_to_temp: open(temp_file, 'w') under a name made of scenario,
\* family, log type and the clock's reading replaces a file of that name
save_chunk_to_temp(temp, chunk, now) ==
    LET name == <<chunk.scenario, chunk.family, chunk.log_type, now>>
    IN  {f \in temp : f.name # name}
        \cup {[name |-> name, scenario |-> chunk.scenario,
               family |-> chunk.family, data |-> chunk.data]}

\* merge_temp_files: results[scenario][family] extended by the data of every
\* *.json file of the directory; kept as the number of times each record
\* occurs
merge_temp_files(temp) ==
    [key \in MergeKeys |-> [r \in MergeRecords |->
        Cardinality({<<f, i>> \in
                        UNION {{f} \X DOMAIN f.data : f \in temp} :
                        /\ <<f.scenario, f.family>> = key
                        /\ f.data[i] = r})]]

InitMerge ==
    /\ DetInit /\ using_ml = FALSE
    /\ ConcIdle /\ ParseIdle /\ FileIdle /\ BatchIdle /\ HandlerIdle
    /\ DashIdle /\ WatchIdle
    /\ t_temp \in Leftovers
    /\ \E present \in SUBSET DOMAIN LogInputs :
        LET files == SelectSeq(LogInputs,
                               LAMBDA f : \E i \in present : LogInputs[i] = f)
            walk[i \in 0..Len(files)] ==
                IF i = 0 THEN <<>> ELSE walk[i - 1] \o chunks_of(files[i])
        IN  /\ t_input = files
            /\ t_todo = walk[Len(files)]
    /\ t_clock = 1
    /\ t_results = <<>>
    /\ t_pc = "chunking"

\* one save_chunk_to_temp of process_directory; the clock has moved on since
\* the last one, or reads the same
SaveChunk ==
    /\ t_pc = "chunking"
    /\ t_todo # <<>>
    /\ \E now \in {t_clock, t_clock + 1} :
        /\ t_temp' = save_chunk_to_temp(t_temp, Head(t_todo), now)
        /\ t_clock' = now
    /\ t_todo' = Tail(t_todo)
    /\ UNCHANGED <<t_input, t_results, t_pc>>
    /\ UNCHANGED <<detVars, concVars, parseVars, fileVars, batchVars,
                   startVars, dashVars, watchVars>>

\* the rest of process_all: merge_temp_files, which unlinks each file it has
\* read, and temp_dir.rmdir()
MergeAll ==
    /\ t_pc = "chunking"
    /\ t_todo = <<>>
    /\ t_results' = merge_temp_files(t_temp)
    /\ t_temp' = {}
    /\ t_pc' = "returned"
    /\ UNCHANGED <<t_input, t_todo, t_clock>>
    /\ UNCHANGED <<detVars, concVars, parseVars, fileVars, batchVars,
                   startVars, dashVars, watchVars>>

NextMerge == SaveChunk \/ MergeAll

SpecMerge == InitMerge /\ [][NextMerge]_vars

----------------------------------------------------------------------------
(* Properties *)

Range(s) == {s[i] : i \in DOMAIN s}

IsPrefix(a, b) ==
    /\ Len(a) <= Len(b)
    /\ SubSeq(b, 1, Len(a)) = a

\* logged events newer than the evaluated event's time minus 60 s
WindowCount ==
    Cardinality({i \in 1..Len(activity_log) :
                    activity_log[i].timestamp > ev.event_time - 60})

\* all logged events fall inside the 60 s before the evaluated event
OneWindow ==
    \A i \in 1..Len(activity_log) :
        activity_log[i].timestamp > ev.event_time - 60

\* C1: the evaluation reports the high-activity reason exactly when more than
\* 10 logged events (the evaluated one included) are newer than
\* event_time - 60; the 11th event of one window reports it, the 10th does not.
C1_HighActivityThreshold ==
    ev.done =>
        /\ (R_high \in Range(ev.reasons)) <=> (WindowCount > 10)
        /\ ev.high_activity <=> (WindowCount > 10)
        /\ (OneWindow /\ Len(activity_log) = 11) => R_high \in Range(ev.reasons)
        /\ (Len(activity_log) = 10) => R_high \notin Range(ev.reasons)

\* the 11th event of one window has been evaluated and reported
C1_Witness ==
    /\ ev.done
    /\ OneWindow
    /\ Len(activity_log) = 11
    /\ R_high \in Range(ev.reasons)

\* the path has a stem that ends in neither a dot nor a slash, followed by an
\* extension of the deny-list in any case
DenyListed(p) ==
    \E k \in 2..Len(p) :
        /\ p[k] = "."
        /\ p[k - 1] \notin {".", "/"}
        /\ lower(SubSeq(p, k, Len(p))) \in suspicious_extensions

\* C2: evaluating an event whose path's final extension is in the deny-list
\* returns an alert whose reasons include the suspicious-extension reason,
\* whatever the window and the classifier.
C2_DenyListedReturnsAlert ==
    (ev.done /\ DenyListed(ev.file_path)) =>
        /\ ev.outcome = "True"
        /\ R_ext \in Range(ev.reasons)

\* C3: when a signal triggers, exactly one alert record for the event (time,
\* path, reasons) is appended to the alert store and the evaluation returns
\* normally.
C3_AlertPersisted ==
    (ev.done /\ (ev.is_suspicious_ext \/ ev.high_activity \/ ev.ml_suspicious)) =>
        /\ ev.outcome = "True"
        /\ alerts # <<>>
        /\ alerts[Len(alerts)] = [timestamp |-> ev.event_time,
                                  file_path |-> ev.file_path,
                                  reasons |-> ev.reasons]

Rank(r) ==
    CASE r = R_ext -> 1 [] r = R_high -> 2 [] OTHER -> 3

\* C4: the reasons of an alert hold one entry for each signal that triggered,
\* none for a signal that did not, in the order extension, volume, classifier:
\* never empty, never a duplicate.
C4_ReasonsMatchSignals ==
    (ev.done /\ ev.outcome # "False") =>
        /\ ev.reasons # <<>>
        /\ Range(ev.reasons) \subseteq {R_ext, R_high, R_ml}
        /\ (R_ext \in Range(ev.reasons)) <=> ev.is_suspicious_ext
        /\ (R_high \in Range(ev.reasons)) <=> ev.high_activity
        /\ (R_ml \in Range(ev.reasons)) <=> ev.ml_suspicious
        /\ \A i, j \in 1..Len(ev.reasons) :
              i < j => Rank(ev.reasons[i]) < Rank(ev.reasons[j])

\* an alert with all three reasons has been built
C4_Witness ==
    /\ ev.done
    /\ ev.reasons = <<R_ext, R_high, R_ml>>

\* C5: a classifier that was not loaded is never invoked and its signal is
\* false; when predict raises, the signal is false, the error is logged, no
\* classifier exception leaves the evaluation, the evaluation goes on with
\* the rule-based signals alone, and the monitor keeps handling events.
C5_ClassifierDegrades ==
    ev.done =>
        /\ ~using_ml => (~ev.ml_called /\ ~ev.ml_suspicious)
        /\ ev.ml_raised =>
              /\ ~ev.ml_suspicious
              /\ "ML prediction error" \in ev.errors
              /\ ev.outcome # "PredictError"
              /\ R_ml \notin Range(ev.reasons)
              /\ (ev.outcome = "False") <=>
                    ~(ev.is_suspicious_ext \/ ev.high_activity)
              /\ (ev.outcome = "False") => observer = "running"

\* predict raised on the second event or later, the evaluation returned and
\* the monitor is still running
C5_Witness ==
    /\ ev.done
    /\ using_ml
    /\ ev.ml_raised
    /\ ev.outcome = "False"
    /\ Len(activity_log) >= 2
    /\ observer = "running"

\* C6: the window count of an evaluation at time T is the number of recorded
\* events with timestamp strictly greater than T - 60; an event exactly 60 s
\* old is not counted; for events at t and t + 70 the count at t + 70 is 1.
C6_WindowCountStrict ==
    ev.done =>
        /\ ev.recent = WindowCount
        /\ ev.recent + Cardinality({i \in 1..Len(activity_log) :
                 activity_log[i].timestamp = ev.event_time - 60})
              <= Len(activity_log)
        /\ ( /\ Len(activity_log) = 2
             /\ activity_log[2].timestamp = activity_log[1].timestamp + 70 )
              => ev.recent = 1
        /\ ( /\ Len(activity_log) = 2
             /\ activity_log[2].timestamp = activity_log[1].timestamp + 60 )
              => ev.recent = 1

\* an event exactly 60 s older than the evaluated one was left out
C6_Witness ==
    /\ ev.done
    /\ Len(activity_log) = 2
    /\ activity_log[2].timestamp = activity_log[1].timestamp + 60
    /\ ev.recent = 1

AllDelivered ==
    \A w \in Writers : w_pc[w] = "idle" /\ w_left[w] = 0

\* C8: once all inserts of the concurrent writers have completed, the
\* persisted store is well-formed and holds exactly those events, each once.
C8_ConcurrentInsertsKept ==
    AllDelivered =>
        /\ well_formed(h_file)
        /\ Len(loaded_events(h_file)) = MaxWriters * MaxPerWriter
        /\ Range(loaded_events(h_file)) =
              {EventCell(w, k) : w \in Writers, k \in 1..MaxPerWriter}

\* C9: the persisted events change only by appending at the end (here for
\* runs in which every save succeeds).
C9_PersistedAppendOnly ==
    [][saveFailures' = 0 => IsPrefix(disk.events, disk'.events)]_vars

\* C10: when stop has returned, every event a handler accepted is persisted
\* exactly once, also across a stop/restart cycle (here for runs in which
\* every save succeeds).
C10_StopLosesNothing ==
    (observer = "stopped" /\ saveFailures = 0) => disk.events = accepted

\* The words of the parsed line, and a line whose first word is a number
Words == split(strip(p_line))
DataLine == Parsed /\ ~is_skipped_line(p_line) /\ Words # <<>> /\ float(Words[1]) # None

\* word is ip:port with a port of digits only
NumericPort(word) ==
    \E k \in 1..Len(word) :
        /\ word[k] = ":"
        /\ \A i \in 1..(k - 1) : word[i] # ":"
        /\ k < Len(word)
        /\ \A i \in (k + 1)..Len(word) : word[i] \in Digits

NetworkExample == <<"1", "7", "0", "0", "0", "0", "0", "0", "0", "0", ".", "0", " ", "1", "0", ".", "0", ".", "0", ".", "5", ":", "4", "4", "4", "4", " ", "1", "0", ".", "0", ".", "0", ".", "9", ":", "4", "4", "5", " ", "W", "R", "I", "T", "E">>

\* C11: a network line with numeric ports yields an event whose ips and
\* integer ports are the two sides of the ':' of words 2 and 3 and whose
\* command is word 4; the line 1700000000.0 10.0.0.5:4444 10.0.0.9:445 WRITE
\* yields 1700000000.0, 10.0.0.5, 4444, 10.0.0.9, 445, WRITE.
C11_NetworkLineParsed ==
    (/\ DataLine
     /\ p_type = TCPconnInfo
     /\ Len(Words) >= 4
     /\ NumericPort(Words[2])
     /\ NumericPort(Words[3])) =>
        /\ HasEvent
        /\ Event.src_port # None /\ Event.src_port[1] \in Nat
        /\ Event.dst_port # None /\ Event.dst_port[1] \in Nat
        /\ Event.src_ip \o <<":">> \o str_int(Event.src_port[1]) = Words[2]
        /\ Event.dst_ip \o <<":">> \o str_int(Event.dst_port[1]) = Words[3]
        /\ Event.smb_command = Some(Words[4])
        /\ (strip(p_line) = NetworkExample) =>
              Event = [timestamp |-> [kind |-> "finite", neg |-> FALSE,
                                      int |-> <<"1", "7", "0", "0", "0", "0", "0", "0", "0", "0">>, frac |-> <<>>],
                       src_ip |-> <<"1", "0", ".", "0", ".", "0", ".", "5">>, src_port |-> Some(4444),
                       dst_ip |-> <<"1", "0", ".", "0", ".", "0", ".", "9">>, dst_port |-> Some(445),
                       smb_command |-> Some(<<"W", "R", "I", "T", "E">>)]

C11_Witness ==
    /\ Parsed
    /\ p_type = TCPconnInfo
    /\ strip(p_line) = NetworkExample
    /\ HasEvent
    /\ Event.src_port = Some(4444)

FilesystemExample == <<"1", "7", "0", "0", "0", "0", "0", "0", "0", "1", ".", "0", " ", "M", "O", "D", "I", "F", "Y", " ", "/", "h", "o", "m", "e", "/", "u", "s", "e", "r", "/", "r", "e", "p", "o", "r", "t", ".", "d", "o", "c", "x", ".", "l", "o", "c", "k", "e", "d">>

\* C12: the filesystem line 1700000001.0 MODIFY /home/user/report.docx.locked
\* parses to operation MODIFY and path /home/user/report.docx.locked, and
\* scoring that event with an empty window and no classifier returns an alert.
C12_ParsedThenAlerted ==
    (/\ Parsed
     /\ p_type = IOops
     /\ strip(p_line) = FilesystemExample) =>
        /\ HasEvent
        /\ Event.operation = Some(<<"M", "O", "D", "I", "F", "Y">>)
        /\ Event.file_path = Some(<<"/", "h", "o", "m", "e", "/", "u", "s", "e", "r", "/", "r", "e", "p", "o", "r", "t", ".", "d", "o", "c", "x", ".", "l", "o", "c", "k", "e", "d">>)
        /\ (p_pc = "scored") =>
              /\ ev.outcome = "True"
              /\ R_ext \in Range(ev.reasons)
              /\ alerts # <<>>

\* the text of word before its first ':'
BeforeColon(word) ==
    LET C == {i \in 1..Len(word) : word[i] = ":"}
    IN  IF C = {} THEN word
        ELSE SubSeq(word, 1, (CHOOSE i \in C : \A j \in C : i <= j) - 1)

\* C13: a network line with a valid timestamp and at least three words whose
\* word 2 or 3 has no port or a port that is not a number still yields an
\* event; the port of that word is null and the other fields are populated.
C13_BadPortKeepsLine ==
    (/\ DataLine
     /\ p_type = TCPconnInfo
     /\ Len(Words) >= 3
     /\ ~NumericPort(Words[2]) \/ ~NumericPort(Words[3])) =>
        /\ HasEvent
        /\ ~NumericPort(Words[2]) => Event.src_port = None
        /\ ~NumericPort(Words[3]) => Event.dst_port = None
        /\ NumericPort(Words[2]) => Event.src_port # None
        /\ NumericPort(Words[3]) => Event.dst_port # None
        /\ Event.timestamp = float(Words[1])[1]
        /\ Event.src_ip = BeforeColon(Words[2])
        /\ Event.dst_ip = BeforeColon(Words[3])
        /\ (Len(Words) > 3) => Event.smb_command = Some(Words[4])

\* a line that is neither blank nor a header, of a known log file, whose
\* first word is no number or which has too few words
MalformedLine ==
    /\ Parsed
    /\ ~is_skipped_line(p_line)
    /\ p_type \in {DNSinfo, TCPconnInfo, IOops}
    /\ \/ float(Words[1]) = None
       \/ Len(Words) < (IF p_type = IOops THEN 2 ELSE 3)

SkippedLine == Parsed /\ is_skipped_line(p_line)

\* what the parse of a blank line returns and logs
SkipOutcome == parse_log_line(<<"\n">>, p_type)

\* C14: a skipped line is not reported as an error, and a malformed line has
\* an outcome other than that of a skipped line and is logged.
C14_SkipAndMalformedDistinct ==
    /\ SkippedLine => p_result.logged = 0
    /\ MalformedLine => (p_result # SkipOutcome /\ p_result.logged > 0)

\* C15: whatever the log file, a line that is neither blank nor a header and
\* whose first word is no floating-point number yields no event; and the
\* timestamp of every event is the value of the first word of its line
\* (1700000000.0 for 1700000000.0, 1000.0 for 1e3).
C15_TimestampIsFirstWord ==
    /\ (Parsed /\ ~is_skipped_line(p_line) /\ float(Words[1]) = None) =>
            p_result.value = None
    /\ HasEvent =>
            /\ float(Words[1]) # None
            /\ Event.timestamp = float(Words[1])[1]
            /\ (Words[1] = T_1700000000) =>
                    repr_float(Event.timestamp) = T_1700000000
            /\ (Words[1] = T_1e3) =>
                    repr_float(Event.timestamp) = <<"1", "0", "0", "0", ".", "0">>

C15_Witness ==
    /\ HasEvent
    /\ Words[1] = T_1e3
    /\ p_type = DNSinfo
    /\ repr_float(Event.timestamp) = <<"1", "0", "0", "0", ".", "0">>

RECURSIVE Flatten(_)
Flatten(chunks) ==
    IF chunks = <<>> THEN <<>> ELSE Head(chunks) \o Flatten(Tail(chunks))

\* the events of the lines, in file order, as one pass with the encoding
\* parses them
RECURSIVE RecordsOf(_, _)
RecordsOf(lines, encoding) ==
    IF lines = <<>> THEN <<>>
    ELSE parse_log_line(decode(Head(lines), encoding)[1], IOops).value
            \o RecordsOf(Tail(lines), encoding)

IsSuffix(s, t) ==
    Len(s) <= Len(t) /\ SubSeq(t, Len(t) - Len(s) + 1, Len(t)) = s

Decodes(lines, encoding) ==
    \A i \in 1..Len(lines) : decode(lines[i], encoding) # None

\* C16: a line that fails to parse or is skipped does not end the reading:
\* the pass goes on to the end of the file, and the events of all the
\* well-formed lines, those after such a line included, are the last events
\* emitted, in file order.
C16_MalformedDoesNotAbort ==
    (f_pc = "done") =>
        /\ f_pos = Len(f_lines)
        /\ f_chunk = <<>>
        /\ IsSuffix(RecordsOf(f_lines, encodings[f_enc]), Flatten(f_out))

C16_Witness ==
    /\ f_pc = "done"
    /\ Len(f_lines) = 4
    /\ f_lines[1] = F_a
    /\ f_lines[2] = F_malformed
    /\ f_lines[3] = F_header
    /\ f_lines[4] = F_b
    /\ Flatten(f_out) = RecordsOf(<<F_a, F_b>>, "utf-8")

FirstEncoding ==
    CHOOSE k \in 1..Len(encodings) :
        /\ Decodes(f_lines, encodings[k])
        /\ \A j \in 1..(k - 1) : ~Decodes(f_lines, encodings[j])

\* C19: the encodings are tried in the order utf-8, latin1, cp1252, and what
\* is emitted is exactly one complete pass with the first encoding that
\* decodes the whole file: the event of each line once, and nothing from a
\* pass that was given up.
C19_OneCompletePass ==
    /\ encodings = <<"utf-8", "latin1", "cp1252">>
    /\ (f_pc = "done") =>
            /\ f_enc = FirstEncoding
            /\ Flatten(f_out) = RecordsOf(f_lines, encodings[FirstEncoding])

\* a line that yields an event with a finite timestamp and, where the event
\* has ips, ips that are not empty
ValidLine ==
    /\ HasEvent
    /\ Event.timestamp.kind = "finite"
    /\ (p_type \in {DNSinfo, TCPconnInfo}) =>
            (Event.src_ip # <<>> /\ Event.dst_ip # <<>>)

AgainWords == split(strip(p_again.line))

\* C17: the event of a valid line, written back in the layout of its log
\* file and parsed again, is the same event, and the line written back has
\* the field values of the original line: the value of the timestamp; for a
\* network line the ip:port words and the command; for a filesystem line the
\* operation and the words of the path; for a dns line the ips and the query.
C17_RoundTrip ==
    (p_pc = "reparsed" /\ ValidLine) =>
        /\ p_again.result.value = p_result.value
        /\ float(AgainWords[1]) = float(Words[1])
        /\ (p_type = TCPconnInfo) =>
                Tail(AgainWords) =
                    SubSeq(Words, 2, IF Len(Words) > 4 THEN 4 ELSE Len(Words))
        /\ (p_type = IOops) => Tail(AgainWords) = Tail(Words)
        /\ (p_type = DNSinfo) =>
                /\ AgainWords[2] = BeforeColon(Words[2])
                /\ AgainWords[3] = BeforeColon(Words[3])
                /\ (Len(Words) > 4) => AgainWords[5] = Words[5]

C17_Witness ==
    /\ p_pc = "reparsed"
    /\ ValidLine
    /\ p_type = IOops
    /\ p_line = T_1e3 \o <<" ", "\t">> \o W_MODIFY \o <<" ", "\t">> \o W_my
                    \o <<" ", "\t">> \o W_file \o <<"\n">>
    /\ p_again.line = <<"1", "0", "0", "0", ".", "0", " ", "M", "O", "D", "I", "F", "Y", " ", "m", "y", " ", "f", "i", "l", "e", ".", "t", "x", "t">> \o <<"\n">>

FieldsOf(log_type) ==
    IF log_type = TCPconnInfo
    THEN {"timestamp", "src_ip", "dst_ip", "src_port", "dst_port", "smb_command"}
    ELSE IF log_type = IOops
    THEN {"timestamp", "operation", "file_path"}
    ELSE {"timestamp", "src_ip", "dst_ip", "dns_query", "response"}

\* C18: an event has exactly the fields of its kind, and a field for which
\* the line has no value is null: no ip, command, operation, path, query or
\* response is the empty string, and a port is null unless the line has one.
C18_FieldsOfKind ==
    HasEvent =>
        /\ DOMAIN Event = FieldsOf(p_type)
        /\ (p_type \in {DNSinfo, TCPconnInfo}) =>
                /\ Event.src_ip # <<>>
                /\ Event.dst_ip # <<>>
        /\ (p_type = TCPconnInfo) =>
                /\ Event.src_port # None <=> NumericPort(Words[2])
                /\ Event.dst_port # None <=> NumericPort(Words[3])
                /\ Event.smb_command # Some(<<>>)
                /\ Event.smb_command # None <=> Len(Words) > 3
        /\ (p_type = IOops) =>
                /\ Event.operation # Some(<<>>)
                /\ Event.file_path # Some(<<>>)
                /\ Event.file_path # None <=> Len(Words) > 2
        /\ (p_type = DNSinfo) =>
                /\ Event.dns_query # Some(<<>>)
                /\ Event.response # Some(<<>>)
                /\ Event.dns_query # None <=> Len(Words) > 4
                /\ Event.response # None <=> Len(Words) > 5

PathsOf(log) == {log[i].path : i \in 1..Len(log)}
EntriesFor(path) == {i \in 1..Len(b_report) : b_report[i].path = path}

\* the sum of the scores of the indicators an entry lists
ListedScore(indicators) ==
    (IF I_rapid \in Range(indicators) THEN 2 ELSE 0)
    + (IF I_extension \in Range(indicators) THEN 3 ELSE 0)
    + (IF I_volume \in Range(indicators) THEN 1 ELSE 0)

\* C20: the score of a path is 2 for rapid operations plus 3 for a suspicious
\* extension plus 1 for more than 10 events; the path is reported exactly
\* when the score is at least 2, so never for more than 10 events alone; and
\* an entry's score is the sum over the indicators it lists.
C20_BatchScore ==
    (b_pc = "analyzed") =>
        /\ \A i \in 1..Len(b_report) : b_report[i].path \in PathsOf(b_log)
        /\ \A path \in PathsOf(b_log) :
            LET group == group_of(b_log, path)
                rapid == rapid_operations(group)
                ext == has_suspicious_extension(path)
                volume == Cardinality({i \in 1..Len(b_log) :
                                            b_log[i].path = path}) > 10
                score == (IF rapid THEN 2 ELSE 0) + (IF ext THEN 3 ELSE 0)
                         + (IF volume THEN 1 ELSE 0)
            IN  /\ Cardinality(EntriesFor(path)) = IF score >= 2 THEN 1 ELSE 0
                /\ (volume /\ ~rapid /\ ~ext) => EntriesFor(path) = {}
                /\ \A i \in EntriesFor(path) :
                    /\ b_report[i].threat_score = score
                    /\ ListedScore(b_report[i].indicators) = score
                    /\ I_rapid \in Range(b_report[i].indicators) <=> rapid
                    /\ I_extension \in Range(b_report[i].indicators) <=> ext
                    /\ I_volume \in Range(b_report[i].indicators) <=> volume

C20_Witness ==
    /\ b_pc = "analyzed"
    /\ Len(group_of(b_log, B_txt)) = 11
    /\ ~rapid_operations(group_of(b_log, B_txt))
    /\ EntriesFor(B_txt) = {}
    /\ \E i \in 1..Len(b_report) :
        /\ b_report[i].path = B_LOCKED
        /\ b_report[i].threat_score = 6

\* C24: a filesystem line with a valid timestamp and at least two words
\* yields an event whose operation is word 2 and whose path is the words from
\* the third on with one space between them, null when there are none; a line
\* with the timestamp alone yields no event.
C24_FilesystemLineParsed ==
    (DataLine /\ p_type = IOops) =>
        /\ (Len(Words) < 2) => ~HasEvent
        /\ (Len(Words) >= 2) =>
                /\ HasEvent
                /\ Event.operation = Some(Words[2])
                /\ (Len(Words) = 2) => Event.file_path = None
                /\ (Len(Words) = 3) => Event.file_path = Some(Words[3])
                /\ (Len(Words) = 4) =>
                        Event.file_path = Some(Words[3] \o <<" ">> \o Words[4])
                /\ (Len(Words) > 2) =>
                        /\ Event.file_path # None
                        /\ split(Event.file_path[1]) = SubSeq(Words, 3, Len(Words))
                        /\ ~contains(Event.file_path[1], <<" ", " ">>)
                        /\ ~contains(Event.file_path[1], <<"\t">>)

C24_Witness ==
    /\ HasEvent
    /\ p_type = IOops
    /\ p_line = <<" ">> \o T_1700000001 \o <<" ", "\t">> \o W_MODIFY
                    \o <<" ", "\t">> \o W_my \o <<" ", "\t">> \o W_file
                    \o <<"\n">>
    /\ Event.file_path = Some(<<"m", "y", " ", "f", "i", "l", "e", ".", "t", "x", "t">>)

\* two events of the path less than a second apart in time
CloseEvents(path) ==
    \E i, j \in 1..Len(b_log) :
        /\ i # j
        /\ b_log[i].path = path
        /\ b_log[j].path = path
        /\ b_log[i].timestamp - b_log[j].timestamp < 1
        /\ b_log[j].timestamp - b_log[i].timestamp < 1

\* C25: a path gets the rapid-operations increment exactly when two of its
\* events, consecutive in time, are less than a second apart; a path whose
\* events are all at least a second apart never gets it, in whatever order
\* the events stand in the log.
C25_RapidOperations ==
    (b_pc = "analyzed") =>
        \A path \in PathsOf(b_log) :
            (\E i \in EntriesFor(path) :
                    I_rapid \in Range(b_report[i].indicators))
                <=> CloseEvents(path)

\* the row at which a path first appears in the log, and its place among
\* the sorted paths
FirstRow(path) == Min({i \in 1..Len(b_log) : b_log[i].path = path})
PathRank(path) == CHOOSE k \in 1..Len(SortedPaths) : SortedPaths[k] = path

\* C26: the report is in descending order of score, and entries of equal
\* score are in the order in which their paths first appear in the log.
C26_TiesInLogOrder ==
    (b_pc = "analyzed") =>
        \A i, j \in 1..Len(b_report) :
            (i < j) =>
                /\ b_report[i].threat_score >= b_report[j].threat_score
                /\ (b_report[i].threat_score = b_report[j].threat_score) =>
                        FirstRow(b_report[i].path) < FirstRow(b_report[j].path)

\* C26, amended: the report is in descending order of score, and entries of
\* equal score are in ascending order of path, the order in which groupby
\* hands out the groups.
C26_TiesInPathOrder ==
    (b_pc = "analyzed") =>
        \A i, j \in 1..Len(b_report) :
            (i < j) =>
                /\ b_report[i].threat_score >= b_report[j].threat_score
                /\ (b_report[i].threat_score = b_report[j].threat_score) =>
                        PathRank(b_report[i].path) < PathRank(b_report[j].path)

C26_Witness ==
    /\ b_pc = "analyzed"
    /\ Len(b_report) = 3
    /\ b_report[1].path = B_txt /\ b_report[1].threat_score = 3
    /\ b_report[2].path = B_locked_bak /\ b_report[2].threat_score = 3
    /\ b_report[3].path = B_LOCKED /\ b_report[3].threat_score = 3
    /\ b_log[1].path = B_LOCKED

\* C27: the suspicious-extension increment is given to a path exactly when
\* its extension, in lower case, is one of .encrypted, .crypto, .locked,
\* .decrypt, which is when the detector of the monitor flags the path.
C27_SameDenyList ==
    (b_pc = "analyzed") =>
        \A path \in PathsOf(b_log) :
            (\E i \in EntriesFor(path) :
                    I_extension \in Range(b_report[i].indicators))
                <=> is_suspicious_ext(path)

\* C21: constructing the event handler over a log file that is missing,
\* empty, corrupt or unreadable completes without raising and starts from an
\* empty event list.
C21_StartupNeverFails ==
    (/\ s_last.op = "init"
     /\ s_last.found \in {"missing", "empty", "corrupt", "unreadable"})
        => (s_pc = "running" /\ s_events = <<>>)

\* C22: a save that fails while an event is handled is logged and the handler
\* returns normally; the event stays in the list, and every save that succeeds
\* afterwards writes every handled event, the ones of failed saves included.
C22_FailedWriteDoesNotStopIngestion ==
    s_last.op = "event" =>
        /\ s_last.returned
        /\ s_pc = "running"
        /\ (s_last.save # "ok" => s_last.error_logged)
        /\ s_events[Len(s_events)] = s_last.id
        /\ (s_last.save = "ok" =>
                s_file = [kind |-> "events", events |-> s_events])

C22_Witness ==
    /\ s_last.op = "event"
    /\ s_last.save = "ok"
    /\ s_failed # {}
    /\ s_file.events = s_events
    /\ \E i \in 1..Len(s_events) : s_events[i] \in s_failed

\* C23: a failed write is retried once, and an event whose write failed is
\* dropped: no later write persists it.
C23_RetriedThenDropped ==
    /\ (s_last.op = "event" /\ s_last.save # "ok") => s_last.attempts = 2
    /\ (s_pc = "running" /\ s_file.kind = "events") =>
            \A i \in 1..Len(s_file.events) : s_file.events[i] \notin s_failed

\* C28: within one session each log file is passed to process_log_file at
\* most once, runs in which processing a file raises included, and a run that
\* starts with data_processed true passes no file.
C28_EachFileAtMostOnce ==
    /\ \A f \in LogFiles : d_calls[f] <= 1
    /\ (d_run.n > 0 /\ d_run.processed_before) => d_run.passed = 0

\* C29: handling an event never itself produces a new observed event: no
\* event waiting for the handler is an event of a file the handler wrote, so
\* the monitor falls silent once the external changes have been handled.
C29_HandlingProducesNoEvent ==
    \A i \in 1..Len(q_pending) :
        q_pending[i].path \notin {log_file, monitor_log}

\* the number of times the log files of the run hold record r under key
ProducedCount(key, r) ==
    Cardinality({<<n, i>> \in
                    UNION {{n} \X DOMAIN t_input[n].records :
                              n \in DOMAIN t_input} :
                    /\ <<t_input[n].scenario, t_input[n].family>> = key
                    /\ t_input[n].records[i] = r})

\* C30: when process_all returns, the merged result holds every record of
\* every log file exactly once under its scenario and family and no record
\* this run did not produce, and no temporary chunk file is left.
C30_NothingLostNothingAdded ==
    t_pc = "returned" =>
        /\ \A key \in MergeKeys : \A r \in MergeRecords :
                t_results[key][r] = ProducedCount(key, r)
        /\ t_temp = {}

====
